---------------------------- MODULE Spec2Model ----------------------------
(***************************************************************************)
(* A model of pam2qoi (src/pam2qoi.cpp): main's read phase, the chunk      *)
(* planning loop, the asynchronous encodeQoi tasks (one step per pixel),   *)
(* and the in-order join that writes the chunk results to std::cout.       *)
(*                                                                         *)
(* std::size_t values are kept as the representative of their residue      *)
(* class modulo 2^w that lies nearest to 0: a negative number n stands for *)
(* the unsigned value 2^w + n.  Addition, subtraction and multiplication   *)
(* on representatives are the machine's modular operations as long as the  *)
(* results stay near 0 or near 2^w, which the bounds of the model ensure;  *)
(* the unsigned order is SizeLess.                                          *)
(***************************************************************************)
EXTENDS Integers, Sequences, FiniteSets, TLC

(***************************************************************************)
(* Bounds of the model                                                     *)
(***************************************************************************)
\* small images: every width x height with width * height <= MaxPixels
\* and height <= MaxSmallRows
MaxPixels == 3
MaxSmallRows == 2
\* tall one-column images of two pixel values: heights 1 .. MaxRows
MaxRows == 4
\* worker counts 0 .. MaxThreads
MaxThreads == 3
\* long one-row images of one repeated pixel: widths around the run cap and LongRow
LongRow == 200

(***************************************************************************)
(* Pixels: Image::Pixel, four 8-bit channels                               *)
(***************************************************************************)
MkPixel(r, g, b, a) == [r |-> r, g |-> g, b |-> b, a |-> a]

\* A wrong default pixel: alpha 0, as if Pixel{} were (0,0,0,0).
TransparentBlack == MkPixel(0, 0, 0, 0)

\* Image::Pixel's default member initialisers: r = g = b = 0, a = 255
DefaultPixel == MkPixel(0, 0, 0, 255)

\* index.fill(Image::Pixel{0, 0, 0, 0})
SentinelPixel == MkPixel(0, 0, 0, 0)

\* std::optional<Image::Pixel>: empty, or holding a pixel
NoPixel == [has |-> FALSE, value |-> MkPixel(0, 0, 0, 0)]

SomePixel(p) == [has |-> TRUE, value |-> p]

\* the pixel values images are drawn from
Palette ==
    { DefaultPixel, SentinelPixel,
      MkPixel(254, 1, 0, 255),     \* DefaultPixel + (-2,1,0) modulo 256
      MkPixel(255, 0, 0, 255),     \* the pixel before + (1,-1,0); DefaultPixel is it + (1,0,0)
      MkPixel(10, 5, 9, 255) }     \* DefaultPixel + (10,5,9)

\* the pixel values of the tall images: DefaultPixel and a pixel of the same
\* hash, far away
TallPalette == { DefaultPixel, MkPixel(64, 0, 0, 255) }

(***************************************************************************)
(* Machine arithmetic                                                      *)
(***************************************************************************)
\* conversion to std::uint8_t (and to char in push_back)
Uint8(v) == v % 256

\* conversion to std::int8_t
Int8(v) == IF v % 256 >= 128 THEN (v % 256) - 256 ELSE v % 256

\* the unsigned order of two std::size_t values (see the module comment)
SizeLess(a, b) == IF (a >= 0) = (b >= 0) THEN a < b ELSE a >= 0

RECURSIVE BitOr(_, _)
\* a | b on non-negative ints
BitOr(a, b) ==
    IF a = 0 THEN b
    ELSE IF b = 0 THEN a
    ELSE (IF a % 2 = 1 \/ b % 2 = 1 THEN 1 ELSE 0) + 2 * BitOr(a \div 2, b \div 2)

RECURSIVE ShiftLeft(_, _)
\* a << n on non-negative ints
ShiftLeft(a, n) == IF n = 0 THEN a ELSE ShiftLeft(2 * a, n - 1)

(***************************************************************************)
(* Image                                                                   *)
(***************************************************************************)
MkImage(w, h, px) == [width |-> w, height |-> h, pixels |-> px]

\* Image::operator bool
ImageValid(img) == img.width /= 0 /\ img.height /= 0

\* Image::getPixel
getPixel(img, x, y) ==
    IF SizeLess(x, img.width) /\ SizeLess(y, img.height)
    THEN img.pixels[img.width * y + x + 1]
    ELSE DefaultPixel

(***************************************************************************)
(* encodeQoi: the opcode tags                                              *)
(***************************************************************************)
INDEX == 0
DIFF == 64
LUMA == 128
RUN == 192
LONG_RUN == 253
RGB == 254
RGBA == 255

\* A wrong cap of the run counter, one too late (run == 63).
RunCapLate == 62 + 1

\* the run counter's cap (run == 62)
RunCap == 62

\* std::array<std::optional<Image::Pixel>, 64>
IndexSize == 64

\* the header is "qoif", two 32-bit big-endian numbers and two bytes
Magic == <<113, 111, 105, 102>>

\* the lambda encode_be of a std::uint32_t
encode_be(value) ==
    << Uint8(value \div 16777216), Uint8(value \div 65536),
       Uint8(value \div 256), Uint8(value) >>

Header(img) ==
    Magic \o encode_be(img.width) \o encode_be(img.height) \o <<4, 0>>

\* the end marker: seven 0 bytes and a 1
EndMarker == <<0, 0, 0, 0, 0, 0, 0, 1>>

\* const std::uint8_t hash = (r * 3 + g * 5 + b * 7 + a * 11) % 64
hash(pixel) ==
    Uint8((pixel.r * 3 + pixel.g * 5 + pixel.b * 7 + pixel.a * 11) % IndexSize)

\* the lambda is_within, whose three parameters are std::int8_t
is_within(value, low, high) ==
    Int8(value) >= Int8(low) /\ Int8(value) <= Int8(high)

\* the bytes of the RGBA opcode
RgbaBytes(pixel) == <<RGBA, Uint8(pixel.r), Uint8(pixel.g), Uint8(pixel.b), Uint8(pixel.a)>>

\* A wrong delta encoding: the shifts of the red and green fields of DIFF
\* are exchanged.
DeltaBytesFieldsSwapped(pixel, previous_pixel) ==
    LET vr == Int8(pixel.r - previous_pixel.r)
        vg == Int8(pixel.g - previous_pixel.g)
        vb == Int8(pixel.b - previous_pixel.b)
        vg_r == Int8(vr - vg)
        vg_b == Int8(vb - vg)
    IN  IF is_within(vr, -2, 1) /\ is_within(vg, -2, 1) /\ is_within(vb, -2, 1)
        THEN << Uint8(BitOr(BitOr(BitOr(DIFF, ShiftLeft(vr + 2, 2)),
                                  ShiftLeft(vg + 2, 4)), vb + 2)) >>
        ELSE IF is_within(vg_r, -8, 7) /\ is_within(vg, -32, 31) /\ is_within(vg_b, -8, 7)
        THEN << Uint8(BitOr(LUMA, vg + 32)),
                Uint8(BitOr(ShiftLeft(vg_r + 8, 4), vg_b + 8)) >>
        ELSE <<RGB, Uint8(pixel.r), Uint8(pixel.g), Uint8(pixel.b)>>

\* A wrong delta encoding: LUMA is tried before DIFF.
DeltaBytesLumaFirst(pixel, previous_pixel) ==
    LET vr == Int8(pixel.r - previous_pixel.r)
        vg == Int8(pixel.g - previous_pixel.g)
        vb == Int8(pixel.b - previous_pixel.b)
        vg_r == Int8(vr - vg)
        vg_b == Int8(vb - vg)
    IN  IF is_within(vg_r, -8, 7) /\ is_within(vg, -32, 31) /\ is_within(vg_b, -8, 7)
        THEN << Uint8(BitOr(LUMA, vg + 32)),
                Uint8(BitOr(ShiftLeft(vg_r + 8, 4), vg_b + 8)) >>
        ELSE IF is_within(vr, -2, 1) /\ is_within(vg, -2, 1) /\ is_within(vb, -2, 1)
        THEN << Uint8(BitOr(BitOr(BitOr(DIFF, ShiftLeft(vr + 2, 4)),
                                  ShiftLeft(vg + 2, 2)), vb + 2)) >>
        ELSE <<RGB, Uint8(pixel.r), Uint8(pixel.g), Uint8(pixel.b)>>

\* The bytes encodeQoi emits for a cache-missing pixel of unchanged alpha:
\* DIFF, else LUMA, else RGB.
DeltaBytes(pixel, previous_pixel) ==
    LET vr == Int8(pixel.r - previous_pixel.r)
        vg == Int8(pixel.g - previous_pixel.g)
        vb == Int8(pixel.b - previous_pixel.b)
        vg_r == Int8(vr - vg)
        vg_b == Int8(vb - vg)
    IN  IF is_within(vr, -2, 1) /\ is_within(vg, -2, 1) /\ is_within(vb, -2, 1)
        THEN << Uint8(BitOr(BitOr(BitOr(DIFF, ShiftLeft(vr + 2, 4)),
                                  ShiftLeft(vg + 2, 2)), vb + 2)) >>
        ELSE IF is_within(vg_r, -8, 7) /\ is_within(vg, -32, 31) /\ is_within(vg_b, -8, 7)
        THEN << Uint8(BitOr(LUMA, vg + 32)),
                Uint8(BitOr(ShiftLeft(vg_r + 8, 4), vg_b + 8)) >>
        ELSE <<RGB, Uint8(pixel.r), Uint8(pixel.g), Uint8(pixel.b)>>

(***************************************************************************)
(* encodeQoi: one invocation is a frame                                    *)
(***************************************************************************)
\* the frame of a call encodeQoi(image, start_y, end_y) that has not begun
NewFrame(start_y, end_y, async) ==
    [ start_y |-> start_y, end_y |-> end_y, async |-> async, pc |-> "start",
      x |-> 0, y |-> 0, res |-> <<>>,
      index |-> [i \in 0 .. IndexSize - 1 |-> NoPixel],
      previous_pixel |-> DefaultPixel, run |-> 0 ]

\* res.reserve((end_y - start_y) * width * 4 * 2 / 3) throws std::length_error
\* (or std::bad_alloc) when the product is within the model's distance of 2^w:
\* a third of it exceeds std::string::max_size() and any address space.
ReserveThrows(f, img) == (f.end_y - f.start_y) * img.width * 4 * 2 < 0

\* A wrong start of encodeQoi: the previous pixel is the index's sentinel.
BeginTransparentPrevious(f, img) ==
    IF ReserveThrows(f, img)
    THEN [f EXCEPT !.pc = "failed"]
    ELSE [f EXCEPT
            !.pc = "loop",
            !.res = IF f.start_y = 0 THEN Header(img) ELSE <<>>,
            !.index = IF f.start_y = 0
                      THEN [i \in 0 .. IndexSize - 1 |-> SomePixel(SentinelPixel)]
                      ELSE [i \in 0 .. IndexSize - 1 |-> NoPixel],
            !.previous_pixel = SentinelPixel,
            !.run = 0,
            !.y = f.start_y,
            !.x = 0]

\* encodeQoi up to its pixel loop: reserve, header, index, registers
Begin(f, img) ==
    IF ReserveThrows(f, img)
    THEN [f EXCEPT !.pc = "failed"]
    ELSE [f EXCEPT
            !.pc = "loop",
            !.res = IF f.start_y = 0 THEN Header(img) ELSE <<>>,
            !.index = IF f.start_y = 0
                      THEN [i \in 0 .. IndexSize - 1 |-> SomePixel(SentinelPixel)]
                      ELSE [i \in 0 .. IndexSize - 1 |-> NoPixel],
            !.previous_pixel = DefaultPixel,
            !.run = 0,
            !.y = f.start_y,
            !.x = 0]

\* for (y = start_y; y < end_y && y < image.getHeight(); ++y): the loop goes on
InLoop(f, img) == SizeLess(f.y, f.end_y) /\ SizeLess(f.y, img.height)

\* ++x, and ++y with x = 0 at the end of a row
Advance(f, img) ==
    IF SizeLess(f.x + 1, img.width)
    THEN [f EXCEPT !.x = f.x + 1]
    ELSE [f EXCEPT !.x = 0, !.y = f.y + 1]

\* A wrong loop body: the alpha test comes before the index lookup.
EncodePixelAlphaFirst(f, img) ==
    LET pixel == getPixel(img, f.x, f.y)
        g == Advance(f, img)
    IN  IF pixel = f.previous_pixel
        THEN IF Uint8(f.run + 1) = RunCap
             THEN [g EXCEPT !.res = Append(f.res, LONG_RUN), !.run = 0]
             ELSE [g EXCEPT !.run = Uint8(f.run + 1)]
        ELSE
        LET res1 == IF f.run /= 0
                    THEN Append(f.res, Uint8(BitOr(RUN, f.run - 1)))
                    ELSE f.res
            h == hash(pixel)
        IN  IF pixel.a /= f.previous_pixel.a
            THEN [g EXCEPT !.res = res1 \o RgbaBytes(pixel),
                           !.run = 0,
                           !.index = [f.index EXCEPT ![h] = SomePixel(pixel)],
                           !.previous_pixel = pixel]
            ELSE IF f.index[h].has /\ f.index[h].value = pixel
            THEN [g EXCEPT !.res = Append(res1, Uint8(BitOr(INDEX, h))),
                           !.run = 0,
                           !.previous_pixel = pixel]
            ELSE [g EXCEPT !.res = res1 \o DeltaBytes(pixel, f.previous_pixel),
                           !.run = 0,
                           !.index = [f.index EXCEPT ![h] = SomePixel(pixel)],
                           !.previous_pixel = pixel]

\* A wrong loop body: the pixel is stored in the index after the alpha
\* test, so a pixel encoded as RGBA is not stored.
EncodePixelStoreAfterAlpha(f, img) ==
    LET pixel == getPixel(img, f.x, f.y)
        g == Advance(f, img)
    IN  IF pixel = f.previous_pixel
        THEN IF Uint8(f.run + 1) = RunCap
             THEN [g EXCEPT !.res = Append(f.res, LONG_RUN), !.run = 0]
             ELSE [g EXCEPT !.run = Uint8(f.run + 1)]
        ELSE
        LET res1 == IF f.run /= 0
                    THEN Append(f.res, Uint8(BitOr(RUN, f.run - 1)))
                    ELSE f.res
            h == hash(pixel)
        IN  IF f.index[h].has /\ f.index[h].value = pixel
            THEN [g EXCEPT !.res = Append(res1, Uint8(BitOr(INDEX, h))),
                           !.run = 0,
                           !.previous_pixel = pixel]
            ELSE IF pixel.a /= f.previous_pixel.a
            THEN [g EXCEPT !.res = res1 \o RgbaBytes(pixel),
                           !.run = 0,
                           !.previous_pixel = pixel]
            ELSE [g EXCEPT !.res = res1 \o DeltaBytes(pixel, f.previous_pixel),
                           !.run = 0,
                           !.index = [f.index EXCEPT ![h] = SomePixel(pixel)],
                           !.previous_pixel = pixel]

\* the body of the pixel loop for the pixel at (x, y)
EncodePixel(f, img) ==
    LET pixel == getPixel(img, f.x, f.y)
        g == Advance(f, img)
    IN  IF pixel = f.previous_pixel
        THEN IF Uint8(f.run + 1) = RunCap
             THEN [g EXCEPT !.res = Append(f.res, LONG_RUN), !.run = 0]
             ELSE [g EXCEPT !.run = Uint8(f.run + 1)]
        ELSE
        LET res1 == IF f.run /= 0
                    THEN Append(f.res, Uint8(BitOr(RUN, f.run - 1)))
                    ELSE f.res
            h == hash(pixel)
        IN  IF f.index[h].has /\ f.index[h].value = pixel
            THEN [g EXCEPT !.res = Append(res1, Uint8(BitOr(INDEX, h))),
                           !.run = 0,
                           !.previous_pixel = pixel]
            ELSE IF pixel.a /= f.previous_pixel.a
            THEN [g EXCEPT !.res = res1 \o RgbaBytes(pixel),
                           !.run = 0,
                           !.index = [f.index EXCEPT ![h] = SomePixel(pixel)],
                           !.previous_pixel = pixel]
            ELSE [g EXCEPT !.res = res1 \o DeltaBytes(pixel, f.previous_pixel),
                           !.run = 0,
                           !.index = [f.index EXCEPT ![h] = SomePixel(pixel)],
                           !.previous_pixel = pixel]

\* A wrong end of encodeQoi: the pending run is not flushed.
FinishNoFlush(f, img) ==
    [f EXCEPT !.pc = "done",
              !.res = IF ~SizeLess(f.end_y + 1, img.height)
                      THEN f.res \o EndMarker
                      ELSE f.res]

\* encodeQoi after its pixel loop: the pending run, the end marker, return
Finish(f, img) ==
    LET res1 == IF f.run /= 0
                THEN Append(f.res, Uint8(BitOr(RUN, f.run - 1)))
                ELSE f.res
    IN  [f EXCEPT !.pc = "done",
                  !.res = IF ~SizeLess(f.end_y + 1, img.height)
                          THEN res1 \o EndMarker
                          ELSE res1]

RECURSIVE IterateN(_, _, _)
\* n iterations of the pixel loop (fewer when it ends before), by halves
IterateN(f, img, n) ==
    IF n = 0 \/ ~InLoop(f, img) THEN f
    ELSE IF n = 1 THEN EncodePixel(f, img)
    ELSE LET g == IterateN(f, img, n \div 2)
         IN  IF InLoop(g, img) THEN IterateN(g, img, n - (n \div 2)) ELSE g

\* the pixel loop run to its end: every iteration encodes one pixel of the
\* image, so there are at most width * height of them
RunLoop(f, img) == IterateN(f, img, img.width * img.height)

\* encodeQoi(image, start_y, end_y) as a function: its frame on return
\* (pc = "done") or on the exception (pc = "failed")
encodeQoi(img, start_y, end_y) ==
    LET f == Begin(NewFrame(start_y, end_y, FALSE), img)
    IN  IF f.pc = "failed" THEN f ELSE Finish(RunLoop(f, img), img)

(***************************************************************************)
(* main's plan and output as functions of the image and the worker count   *)
(***************************************************************************)
\* std::max<std::size_t>(1, image.getHeight() / threads)
LinesPerPack(height, t) == IF height \div t > 1 THEN height \div t ELSE 1

\* A wrong first pack: as long as the others, the remainder of the division
\* left to further packs.
LinesFirstPackEven(height, t) == LinesPerPack(height, t)

\* image.getHeight() - (threads - 1) * lines_per_pack
LinesFirstPack(height, t) == height - (t - 1) * LinesPerPack(height, t)

RECURSIVE PlanFrom(_, _, _, _)
\* the ranges the planning loop submits from (start_y, end_y) on
PlanFrom(s, e, lpp, height) ==
    IF SizeLess(s, height)
    THEN << <<s, e>> >> \o PlanFrom(e, e + lpp, lpp, height)
    ELSE <<>>

\* the ranges main encodes, in order: [0, height) when threads < 2
ChunkPlan(height, t) ==
    IF t < 2
    THEN << <<0, height>> >>
    ELSE PlanFrom(0, LinesFirstPack(height, t), LinesPerPack(height, t), height)

\* the frames of main's invocations on their return
PlanFrames(img, t) ==
    LET plan == ChunkPlan(img.height, t)
    IN  [i \in 1 .. Len(plan) |-> encodeQoi(img, plan[i][1], plan[i][2])]

RECURSIVE WrittenOf(_, _)
\* what main writes of the frames from position i on: the strings in order,
\* up to the first invocation that threw
WrittenOf(frames, i) ==
    IF i > Len(frames) \/ frames[i].pc = "failed"
    THEN <<>>
    ELSE frames[i].res \o WrittenOf(frames, i + 1)

\* the bytes main has written to std::cout when it returns
Output(img, t) == WrittenOf(PlanFrames(img, t), 1)

\* main's return: "done" (0), or "failed" (1) when an invocation threw
Exit(img, t) ==
    IF \E i \in DOMAIN PlanFrames(img, t) : PlanFrames(img, t)[i].pc = "failed"
    THEN "failed"
    ELSE "done"

(***************************************************************************)
(* The inputs of a run                                                     *)
(***************************************************************************)
\* the widths of the long one-row images
LongWidths == { RunCap - 1, RunCap, RunCap + 1, LongRow }

SmallImages ==
    UNION { { MkImage(s[1], s[2], px) : px \in [1 .. s[1] * s[2] -> Palette] } :
            s \in { t \in (1 .. MaxPixels) \X (1 .. MaxSmallRows) :
                       t[1] * t[2] <= MaxPixels } }

TallImages ==
    UNION { { MkImage(1, h, px) : px \in [1 .. h -> TallPalette] } :
            h \in 1 .. MaxRows }

LongImages ==
    { MkImage(w, 1, [i \in 1 .. w |-> p]) : w \in LongWidths, p \in Palette }

\* images of two rows of three pixels of two values with different hashes:
\* with two workers the second chunk is one row, the shortest in which a
\* chunk that starts with an empty index meets a pixel it has stored
WideImages ==
    { MkImage(3, 2, px) : px \in [1 .. 6 -> { DefaultPixel, MkPixel(255, 0, 0, 255) }] }

\* the green deltas and the red-minus-green, blue-minus-green deltas of the
\* two-pixel images: the edges of the DIFF and LUMA ranges
GreenDeltas == { -33, -32, -3, -2, -1, 0, 1, 2, 31, 32 }

ChromaDeltas == { -9, -8, -2, 0, 1, 7, 8 }

\* the first pixels of the two-pixel images
PairBases == { DefaultPixel, MkPixel(254, 1, 128, 255) }

\* pixel p with (vr, vg, vb) added to its colour channels, modulo 256
Shifted(p, vr, vg, vb) ==
    MkPixel((p.r + vr) % 256, (p.g + vg) % 256, (p.b + vb) % 256, p.a)

\* 2x1 images of one pixel and a pixel at a chosen distance of it
PairImages ==
    { MkImage(2, 1, << p, Shifted(p, vg + dr, vg, vg + db) >>) :
        p \in PairBases, vg \in GreenDeltas, dr \in ChromaDeltas, db \in ChromaDeltas }

\* an Image with no pixels: Image(), and what readPam returns for WIDTH 0 or HEIGHT 0
EmptyImages == { MkImage(0, 0, <<>>), MkImage(0, 1, <<>>), MkImage(1, 0, <<>>) }

\* what readPam(std::cin) does: it returns an image, or throws std::runtime_error
Inputs ==
    { [kind |-> "image", image |-> img] :
        img \in SmallImages \cup TallImages \cup LongImages \cup WideImages
                 \cup PairImages \cup EmptyImages }
    \cup { [kind |-> "error", image |-> MkImage(0, 0, <<>>)] }

(***************************************************************************)
(* main                                                                    *)
(***************************************************************************)
VARIABLES
    input,            \* what std::cin holds
    threads,          \* const unsigned int threads
    pc,               \* main's position
    image,            \* const Image image
    lines_per_pack,   \* const std::size_t lines_per_pack
    start_y,          \* the planning loop's start_y
    end_y,            \* the planning loop's end_y
    results,          \* the frames of the encodeQoi invocations, in submission
                      \* order: std::vector<std::future<std::string>> results when
                      \* threads >= 2, the one synchronous call otherwise
    next,             \* the position of the joining loop in results
    out,              \* the bytes written to std::cout
    err               \* the lines written to std::cerr

vars ==
    << input, threads, pc, image, lines_per_pack, start_y, end_y, results, next, out, err >>

Init ==
    /\ input \in Inputs
    /\ threads \in 0 .. MaxThreads
    /\ pc = "read"
    /\ image = MkImage(0, 0, <<>>)
    /\ lines_per_pack = 0
    /\ start_y = 0
    /\ end_y = 0
    /\ results = <<>>
    /\ next = 1
    /\ out = <<>>
    /\ err = <<>>

\* A wrong read phase: the test of the empty image is missing.
ReadInputUnchecked ==
    /\ pc = "read"
    /\ IF input.kind = "error"
       THEN pc' = "failed" /\ image' = image
       ELSE image' = input.image /\ pc' = "start"
    /\ err' = Append(err, IF input.kind = "image" THEN "Read" ELSE "An error occurred")
    /\ UNCHANGED << input, threads, lines_per_pack, start_y, end_y, results, next, out >>

\* const Image image = readPam(std::cin); if (!image) throw ...
ReadInput ==
    /\ pc = "read"
    /\ IF input.kind = "error"
       THEN pc' = "failed" /\ image' = image
       ELSE /\ image' = input.image
            /\ pc' = IF ImageValid(input.image) THEN "start" ELSE "failed"
    /\ err' = Append(err, IF input.kind = "image" /\ ImageValid(input.image)
                          THEN "Read" ELSE "An error occurred")
    /\ UNCHANGED << input, threads, lines_per_pack, start_y, end_y, results, next, out >>

\* threads < 2: std::cout << encodeQoi(image, 0, image.getHeight()), the call
StartSerial ==
    /\ pc = "start"
    /\ threads < 2
    /\ results' = << NewFrame(0, image.height, FALSE) >>
    /\ pc' = "serial"
    /\ UNCHANGED << input, threads, image, lines_per_pack, start_y, end_y, next, out, err >>

\* threads >= 2: lines_per_pack, lines_first_pack and the loop's initialisation
Plan ==
    /\ pc = "start"
    /\ threads >= 2
    /\ lines_per_pack' = LinesPerPack(image.height, threads)
    /\ start_y' = 0
    /\ end_y' = LinesFirstPack(image.height, threads)
    /\ pc' = "submit"
    /\ UNCHANGED << input, threads, image, results, next, out, err >>

\* one iteration of the planning loop: results.push_back(std::async(...))
Submit ==
    /\ pc = "submit"
    /\ SizeLess(start_y, image.height)
    /\ results' = Append(results, NewFrame(start_y, end_y, TRUE))
    /\ start_y' = end_y
    /\ end_y' = end_y + lines_per_pack
    /\ UNCHANGED << input, threads, pc, image, lines_per_pack, next, out, err >>

\* the planning loop ends
EndSubmit ==
    /\ pc = "submit"
    /\ ~SizeLess(start_y, image.height)
    /\ pc' = "join"
    /\ next' = 1
    /\ UNCHANGED << input, threads, image, lines_per_pack, start_y, end_y, results, out, err >>

\* an invocation begins (for a task: on its own thread, any time after std::async)
TaskBegin(k) ==
    /\ results[k].pc = "start"
    /\ results' = [results EXCEPT ![k] = Begin(@, image)]
    /\ UNCHANGED << input, threads, pc, image, lines_per_pack, start_y, end_y, next, out, err >>

\* A wrong task: the index table is one table shared by all invocations
\* (the table of the first frame), not a local of encodeQoi.
TaskPixelSharedIndex(k) ==
    /\ results[k].pc = "loop"
    /\ InLoop(results[k], image)
    /\ LET g == EncodePixel([results[k] EXCEPT !.index = results[1].index], image)
       IN  results' = [results EXCEPT ![k] = g, ![1].index = g.index]
    /\ UNCHANGED << input, threads, pc, image, lines_per_pack, start_y, end_y, next, out, err >>

\* an invocation encodes its next pixel
TaskPixel(k) ==
    /\ results[k].pc = "loop"
    /\ InLoop(results[k], image)
    /\ results' = [results EXCEPT ![k] = EncodePixel(@, image)]
    /\ UNCHANGED << input, threads, pc, image, lines_per_pack, start_y, end_y, next, out, err >>

\* an invocation leaves its loop and returns
TaskFinish(k) ==
    /\ results[k].pc = "loop"
    /\ ~InLoop(results[k], image)
    /\ results' = [results EXCEPT ![k] = Finish(@, image)]
    /\ UNCHANGED << input, threads, pc, image, lines_per_pack, start_y, end_y, next, out, err >>

\* threads < 2: the synchronous call has returned and its string is written
SerialWrite ==
    /\ pc = "serial"
    /\ results[1].pc = "done"
    /\ out' = out \o results[1].res
    /\ pc' = "done"
    /\ err' = Append(err, "Write")
    /\ UNCHANGED << input, threads, image, lines_per_pack, start_y, end_y, results, next >>

\* A wrong join: the results are written in the order the tasks complete.
JoinCompletionOrder ==
    /\ pc = "join"
    /\ next <= Len(results)
    /\ \E k \in next .. Len(results) :
          /\ results[k].pc = "done"
          /\ out' = out \o results[k].res
    /\ next' = next + 1
    /\ UNCHANGED << input, threads, pc, image, lines_per_pack, start_y, end_y, results, err >>

\* for (auto&& result : results) std::cout << result.get(): one iteration
Join ==
    /\ pc = "join"
    /\ next <= Len(results)
    /\ results[next].pc = "done"
    /\ out' = out \o results[next].res
    /\ next' = next + 1
    /\ UNCHANGED << input, threads, pc, image, lines_per_pack, start_y, end_y, results, err >>

\* A wrong catch: what the failed invocation had encoded is written before
\* main returns 1.
JoinThrowsAfterWrite ==
    /\ pc = "join"
    /\ next <= Len(results)
    /\ results[next].pc = "failed"
    /\ out' = out \o results[next].res
    /\ pc' = "failed"
    /\ err' = Append(err, "An error occurred")
    /\ UNCHANGED << input, threads, image, lines_per_pack, start_y, end_y, results, next >>

\* result.get() rethrows the task's exception; main catches it and returns 1
JoinThrows ==
    /\ pc = "join"
    /\ next <= Len(results)
    /\ results[next].pc = "failed"
    /\ pc' = "failed"
    /\ err' = Append(err, "An error occurred")
    /\ UNCHANGED << input, threads, image, lines_per_pack, start_y, end_y, results, next, out >>

\* A wrong end of the joining loop: it looks for one result more than there are.
EndJoinLate ==
    /\ pc = "join"
    /\ next > Len(results) + 1
    /\ pc' = "done"
    /\ err' = Append(err, "Write")
    /\ UNCHANGED << input, threads, image, lines_per_pack, start_y, end_y, results, next, out >>

\* the joining loop ends; return 0
EndJoin ==
    /\ pc = "join"
    /\ next > Len(results)
    /\ pc' = "done"
    /\ err' = Append(err, "Write")
    /\ UNCHANGED << input, threads, image, lines_per_pack, start_y, end_y, results, next, out >>

Next ==
    \/ ReadInput
    \/ StartSerial
    \/ Plan
    \/ Submit
    \/ EndSubmit
    \/ \E k \in 1 .. Len(results) : TaskBegin(k)
    \/ \E k \in 1 .. Len(results) : TaskPixel(k)
    \/ \E k \in 1 .. Len(results) : TaskFinish(k)
    \/ SerialWrite
    \/ Join
    \/ JoinThrows
    \/ EndJoin

Spec == Init /\ [][Next]_vars

(***************************************************************************)
(* Fair scheduling: main's thread goes on while it has a step to take (a   *)
(* join waits for its task, it is not a step until the task has returned   *)
(* or thrown), and so does the thread of every task std::async started.    *)
(* Hence the program does not stop while one of its threads has a step to  *)
(* take, which is all the fairness the properties need.                    *)
(***************************************************************************)
\* the fair runs are the runs on the tall images, which main splits into up
\* to MaxThreads chunks, and on the inputs main rejects
InitFair ==
    /\ Init
    /\ input.image \in TallImages \cup EmptyImages

FairSpec == InitFair /\ [][Next]_vars /\ WF_vars(Next)

(***************************************************************************)
(* main with allocation failures: res.reserve and every res.push_back or   *)
(* res += may throw std::bad_alloc when memory is exhausted, so an         *)
(* invocation may fail before its loop, at any pixel and at its end.       *)
(***************************************************************************)
\* an invocation that has not returned throws std::bad_alloc
TaskThrows(k) ==
    /\ results[k].pc \in {"start", "loop"}
    /\ results' = [results EXCEPT ![k].pc = "failed"]
    /\ UNCHANGED << input, threads, pc, image, lines_per_pack, start_y, end_y, next, out, err >>

\* threads < 2: the synchronous call throws; main catches it and returns 1
SerialThrows ==
    /\ pc = "serial"
    /\ results[1].pc = "failed"
    /\ pc' = "failed"
    /\ err' = Append(err, "An error occurred")
    /\ UNCHANGED << input, threads, image, lines_per_pack, start_y, end_y, results, next, out >>

NextFail ==
    \/ ReadInput
    \/ StartSerial
    \/ Plan
    \/ Submit
    \/ EndSubmit
    \/ \E k \in 1 .. Len(results) : TaskBegin(k)
    \/ \E k \in 1 .. Len(results) : TaskPixel(k)
    \/ \E k \in 1 .. Len(results) : TaskFinish(k)
    \/ \E k \in 1 .. Len(results) : TaskThrows(k)
    \/ SerialWrite
    \/ SerialThrows
    \/ Join
    \/ JoinThrows
    \/ EndJoin

\* the runs with allocation failures are the runs on the tall images, which
\* main splits into up to MaxThreads chunks, and on the inputs main rejects
InitFail ==
    /\ Init
    /\ input.image \in TallImages \cup EmptyImages

SpecFail == InitFail /\ [][NextFail]_vars

(***************************************************************************)
(* Helpers of the properties                                               *)
(***************************************************************************)
StartsWith(seq, pre) ==
    Len(seq) >= Len(pre) /\ SubSeq(seq, 1, Len(pre)) = pre

EndsWith(seq, suf) ==
    Len(seq) >= Len(suf) /\ SubSeq(seq, Len(seq) - Len(suf) + 1, Len(seq)) = suf

\* the positions of seq at which pat occurs
Occurrences(seq, pat) ==
    { i \in 1 .. Len(seq) - Len(pat) + 1 : SubSeq(seq, i, i + Len(pat) - 1) = pat }

RECURSIVE ConcatRes(_, _)
\* the strings of the first n frames, one after the other
ConcatRes(frames, n) ==
    IF n = 0 THEN <<>> ELSE ConcatRes(frames, n - 1) \o frames[n].res

\* the planning is over: every range main submits has been submitted
Planned == pc \in {"serial", "join", "done"} \/ (pc = "failed" /\ results /= <<>>)

\* the 14 bytes a header must be, written out from the format
QoiHeader(w, h) ==
    << 113, 111, 105, 102,
       (w \div 16777216) % 256, (w \div 65536) % 256, (w \div 256) % 256, w % 256,
       (h \div 16777216) % 256, (h \div 65536) % 256, (h \div 256) % 256, h % 256,
       4, 0 >>

QoiEndMarker == <<0, 0, 0, 0, 0, 0, 0, 1>>

(***************************************************************************)
(* C1: for every H >= 1 and T >= 1 the row ranges main submits are         *)
(* contiguous from row 0, each of length >= 1 with no bound beyond H, and  *)
(* once planning is over they cover [0, H) exactly.                        *)
(* The code breaks it: H = 1, T = 2 submits [0,0) and then [0,1).          *)
(***************************************************************************)
C1_RangesPartitionRows ==
    threads >= 1 =>
        /\ \A k \in 1 .. Len(results) :
              /\ results[k].start_y = IF k = 1 THEN 0 ELSE results[k - 1].end_y
              /\ SizeLess(results[k].start_y, results[k].end_y)
              /\ ~SizeLess(image.height, results[k].end_y)
        /\ Planned => /\ results /= <<>>
                      /\ results[Len(results)].end_y = image.height

(***************************************************************************)
(* C2: for a non-empty image and T >= 1, exactly one chunk appends the     *)
(* 8-byte end marker, the last one, and the marker occurs exactly once in  *)
(* the output, at its very end.                                            *)
(* The code breaks it already where the plan partitions the rows (T <= H), *)
(* which is the case stated here: H = 2, T = 2 plans [0,1) and [1,2), and  *)
(* the chunk [0,1) passes the test end_y + 1 >= height as well.            *)
(***************************************************************************)
C2_EndMarkerOnce ==
    (pc = "done" /\ threads >= 1 /\ threads <= image.height) =>
        /\ { k \in 1 .. Len(results) : EndsWith(results[k].res, QoiEndMarker) }
              = { Len(results) }
        /\ Occurrences(out, QoiEndMarker) = { Len(out) - 7 }

(***************************************************************************)
(* C5: for a non-empty image and T >= 1, exactly one chunk emits the       *)
(* 14-byte header, the one whose start row is 0; it occurs exactly once in *)
(* the output, as its first 14 bytes, and no chunk with start_y > 0 emits  *)
(* it.                                                                     *)
(* The code breaks it through the planner (C1): H = 1, T = 2 submits [0,0) *)
(* and [0,1), two chunks with start_y = 0, and each emits a header.        *)
(***************************************************************************)
C5_HeaderOnce ==
    (pc = "done" /\ threads >= 1) =>
        /\ { k \in 1 .. Len(results) :
                StartsWith(results[k].res, QoiHeader(image.width, image.height)) } = { 1 }
        /\ { k \in 1 .. Len(results) : results[k].start_y = 0 } = { 1 }
        /\ Occurrences(out, QoiHeader(image.width, image.height)) = { 1 }

(***************************************************************************)
(* A standard sequential decoder of the opcode grammar: one previous-pixel *)
(* register, (0,0,0,255) at the start, and one 64-slot table of (0,0,0,0)  *)
(* entries that takes every decoded pixel, both kept across the stream.    *)
(***************************************************************************)
QoiHash(p) == (p.r * 3 + p.g * 5 + p.b * 7 + p.a * 11) % 64

DecoderInit ==
    [ px |-> MkPixel(0, 0, 0, 255),
      table |-> [i \in 0 .. 63 |-> MkPixel(0, 0, 0, 0)],
      pixels |-> <<>>,
      ok |-> TRUE ]

\* the decoder has decoded pixel p
Decoded(st, p) ==
    [st EXCEPT !.px = p, !.table[QoiHash(p)] = p, !.pixels = Append(st.pixels, p)]

\* the decoder repeats its previous pixel n times
Repeat(st, n) ==
    [st EXCEPT !.table[QoiHash(st.px)] = st.px,
               !.pixels = st.pixels \o [i \in 1 .. n |-> st.px]]

\* the number of bytes of the opcode that starts with byte b
OpLen(b) == IF b = 255 THEN 5 ELSE IF b = 254 THEN 4 ELSE IF b \div 64 = 2 THEN 2 ELSE 1

\* the number of pixels the opcode that starts with byte b stands for
OpPixels(b) == IF b \div 64 = 3 /\ b < 254 THEN (b % 64) + 1 ELSE 1

\* the kind of the opcode that starts with byte b
OpKind(b) ==
    IF b = 255 THEN "RGBA"
    ELSE IF b = 254 THEN "RGB"
    ELSE IF b \div 64 = 3 THEN "RUN"
    ELSE IF b \div 64 = 2 THEN "LUMA"
    ELSE IF b \div 64 = 1 THEN "DIFF"
    ELSE "INDEX"

\* the decoder takes the opcode at position i of bytes
DecodeOp(st, bytes, i) ==
    LET b == bytes[i]
        p == st.px
    IN  IF b = 255 THEN
            Decoded(st, MkPixel(bytes[i + 1], bytes[i + 2], bytes[i + 3], bytes[i + 4]))
        ELSE IF b = 254 THEN
            Decoded(st, MkPixel(bytes[i + 1], bytes[i + 2], bytes[i + 3], p.a))
        ELSE IF b \div 64 = 3 THEN
            Repeat(st, (b % 64) + 1)
        ELSE IF b \div 64 = 2 THEN
            LET vg == (b % 64) - 32
                b2 == bytes[i + 1]
            IN  Decoded(st, MkPixel((p.r + vg - 8 + (b2 \div 16)) % 256,
                                    (p.g + vg) % 256,
                                    (p.b + vg - 8 + (b2 % 16)) % 256,
                                    p.a))
        ELSE IF b \div 64 = 1 THEN
            Decoded(st, MkPixel((p.r + ((b \div 16) % 4) - 2) % 256,
                                (p.g + ((b \div 4) % 4) - 2) % 256,
                                (p.b + (b % 4) - 2) % 256,
                                p.a))
        ELSE Decoded(st, st.table[b])

RECURSIVE Decode(_, _, _)
\* the decoder's state after the opcodes of bytes from position i on; ok is
\* FALSE when the bytes end inside an opcode
Decode(st, bytes, i) ==
    IF i > Len(bytes) THEN st
    ELSE IF i + OpLen(bytes[i]) - 1 > Len(bytes) THEN [st EXCEPT !.ok = FALSE]
    ELSE Decode(DecodeOp(st, bytes, i), bytes, i + OpLen(bytes[i]))

RECURSIVE OpStarts(_, _)
\* the positions of bytes at which an opcode starts
OpStarts(bytes, i) ==
    IF i > Len(bytes) THEN {} ELSE {i} \cup OpStarts(bytes, i + OpLen(bytes[i]))

\* what lies between a stream's 14-byte header and its 8-byte end marker
Body(stream) == SubSeq(stream, 15, Len(stream) - 8)

\* stream is a valid stream of the image img
ValidStream(stream, img) ==
    /\ Len(stream) >= 22
    /\ StartsWith(stream, QoiHeader(img.width, img.height))
    /\ EndsWith(stream, QoiEndMarker)
    /\ LET st == Decode(DecoderInit, Body(stream), 1)
       IN  st.ok /\ st.pixels = img.pixels

(***************************************************************************)
(* C3: for a non-empty image and T >= 1 the concatenated output is a valid *)
(* stream of the whole image: a standard sequential decoder, whose         *)
(* previous pixel and table are not reset at chunk boundaries, rebuilds    *)
(* the image's pixels from the bytes between header and end marker; in     *)
(* particular for T >= 2 and several chunks that start from fresh state.   *)
(* The code breaks it already where the plan partitions the rows and only  *)
(* the last chunk appends the end marker (T >= 2, 2 * T <= H), which is    *)
(* the case stated here: a later chunk encodes against the previous pixel  *)
(* (0,0,0,255), the decoder against the last pixel of the chunk before.    *)
(***************************************************************************)
C3_ConcatenationDecodes ==
    (pc = "done" /\ threads >= 2 /\ 2 * threads <= image.height) =>
        ValidStream(out, image)

\* the serial path of the same statement, which the code keeps
SerialOutputDecodes ==
    (pc = "done" /\ threads < 2) => ValidStream(out, image)

(***************************************************************************)
(* C4: when T >= 2, whatever the order in which the tasks complete, the    *)
(* bytes written are the results of the first n chunks in submission       *)
(* order, whole and one after the other, for some n; every chunk written   *)
(* has completed, and no chunk is written before those submitted before it.*)
(***************************************************************************)
C4_WrittenInSubmissionOrder ==
    threads >= 2 =>
        \E n \in 0 .. Len(results) :
            /\ \A k \in 1 .. n : results[k].pc = "done"
            /\ out = ConcatRes(results, n)
            /\ pc = "done" => n = Len(results)

\* a later chunk has completed while main waits for an earlier one, after
\* it has written the first
C4_Witness ==
    /\ threads >= 2
    /\ pc = "join"
    /\ next = 2
    /\ out /= <<>>
    /\ Len(results) >= 3
    /\ results[2].pc /= "done"
    /\ results[3].pc = "done"

(***************************************************************************)
(* C6: for a fixed image and worker count every execution, under every     *)
(* schedule of the tasks, writes the same bytes and ends the same way:     *)
(* each invocation's string is the function encodeQoi of (image, start_y,  *)
(* end_y), whatever ran before or beside it, and the output is the         *)
(* function Output of (image, threads).                                    *)
(***************************************************************************)
C6_Deterministic ==
    /\ \A k \in 1 .. Len(results) :
          results[k].pc \in {"done", "failed"} =>
              LET f == encodeQoi(image, results[k].start_y, results[k].end_y)
              IN  results[k].pc = f.pc /\ results[k].res = f.res
    /\ (pc \in {"done", "failed"} /\ ImageValid(image)) =>
          /\ out = Output(image, threads)
          /\ pc = Exit(image, threads)

\* two tasks have run side by side and both have returned
C6_Witness ==
    /\ threads >= 2
    /\ pc = "submit"
    /\ Len(results) >= 2
    /\ results[1].pc = "loop"
    /\ results[2].pc = "done"
    /\ results[2].res /= <<>>

(***************************************************************************)
(* Reading a chunk's opcodes and main's steps                              *)
(***************************************************************************)
RECURSIVE RunTotal(_, _)
\* the sum of the run lengths of the RUN opcodes (0xFD counting 62) of
\* bytes from position i on
RunTotal(bytes, i) ==
    IF i > Len(bytes) THEN 0
    ELSE (IF OpKind(bytes[i]) = "RUN" THEN OpPixels(bytes[i]) ELSE 0)
         + RunTotal(bytes, i + OpLen(bytes[i]))

\* the positions of the opcodes of bytes that are no RUN
OtherOps(bytes) == { i \in OpStarts(bytes, 1) : OpKind(bytes[i]) /= "RUN" }

\* img is one row of n pixels, all the same
RepeatedRow(img, n) ==
    /\ img.height = 1
    /\ img.width = n
    /\ \A i \in 1 .. n : img.pixels[i] = img.pixels[1]

\* invocation k encodes one pixel in this step
PixelStep(k) ==
    /\ results[k].pc = "loop"
    /\ results'[k].pc = "loop"
    /\ << results'[k].x, results'[k].y >> /= << results[k].x, results[k].y >>

\* the pixel invocation k encodes next, and the pixel of the image before it
CurrentPixel(k) == image.pixels[image.width * results[k].y + results[k].x + 1]

PixelBefore(k) == image.pixels[image.width * results[k].y + results[k].x]

\* the number of pixels invocation k has encoded
Encoded(k) ==
    image.width * results[k].y + results[k].x - image.width * results[k].start_y

\* the bytes invocation k appends in this step
Emitted(k) == SubSeq(results'[k].res, Len(results[k].res) + 1, Len(results'[k].res))

\* the RUN opcode of the pending run of invocation k, if there is one
PendingRun(k) ==
    IF results[k].run > 0 THEN << 192 + results[k].run - 1 >> ELSE <<>>

(***************************************************************************)
(* C7 as amended: for the 2x1 image of two pixels (255,0,0,255) the output *)
(* with worker count 1 is the 14 header bytes, one DIFF opcode with the    *)
(* deltas (-1,0,0) for the first pixel, one RUN opcode of length 1 for the *)
(* second, and the 8-byte end marker: 24 bytes.                            *)
(***************************************************************************)
RedPair == MkImage(2, 1, << MkPixel(255, 0, 0, 255), MkPixel(255, 0, 0, 255) >>)

C7_RedPairIsDiffThenRun ==
    (pc = "done" /\ threads = 1 /\ image = RedPair) =>
        /\ out = QoiHeader(2, 1) \o << 64 + 16 * (-1 + 2) + 4 * (0 + 2) + (0 + 2), 192 + (1 - 1) >>
                     \o QoiEndMarker
        /\ Len(out) = 24

\* C7 as claimed: the body is one RUN opcode of length 2, 23 bytes in all.
C7_RedPairIsOneRun ==
    (pc = "done" /\ threads = 1 /\ image = RedPair) =>
        /\ out = QoiHeader(2, 1) \o << 192 + (2 - 1) >> \o QoiEndMarker
        /\ Len(out) = 23

C7_Witness == pc = "done" /\ threads = 1 /\ image = RedPair /\ out /= <<>>

(***************************************************************************)
(* C8 as amended: for a row of 200 identical pixels and worker count 1,    *)
(* the run lengths of the RUN and LONG_RUN opcodes sum to 200 when the     *)
(* pixel is (0,0,0,255) and no other opcode is emitted; for any other      *)
(* pixel they sum to 199 and exactly one other opcode is emitted, the      *)
(* first of the body, for the first pixel.                                 *)
(***************************************************************************)
C8_RunsOfRepeatedRow ==
    (pc = "done" /\ threads = 1 /\ RepeatedRow(image, LongRow)) =>
        LET first == IF image.pixels[1] = MkPixel(0, 0, 0, 255) THEN 0 ELSE 1
        IN  /\ RunTotal(Body(out), 1) = LongRow - first
            /\ OtherOps(Body(out)) = 1 .. first

\* C8 as claimed: the run lengths sum to 200 and no other opcode stands for
\* a repeated pixel.
C8_RunsSumToRowLength ==
    (pc = "done" /\ threads = 1 /\ RepeatedRow(image, LongRow)) =>
        /\ RunTotal(Body(out), 1) = LongRow
        /\ OtherOps(Body(out)) \subseteq {1}

C8_Witness ==
    /\ pc = "done"
    /\ threads = 1
    /\ RepeatedRow(image, LongRow)
    /\ image.pixels[1] /= MkPixel(0, 0, 0, 255)
    /\ RunTotal(Body(out), 1) > RunCap

(***************************************************************************)
(* C9 as amended: for two adjacent pixels of a chunk whose difference      *)
(* current minus previous is (1,-1,0) with unchanged alpha, the encoder    *)
(* emits for the second pixel the DIFF opcode of these deltas, unless the  *)
(* index table holds the second pixel at its hash, and then it emits the   *)
(* INDEX opcode of that slot.                                              *)
(***************************************************************************)
\* pixel p is pixel q plus (1,-1,0), alpha unchanged
OneMinusOneZero(p, q) ==
    p.r - q.r = 1 /\ p.g - q.g = -1 /\ p.b - q.b = 0 /\ p.a = q.a

\* the slot of the index table of invocation k that p hashes to holds p
Cached(k, p) ==
    results[k].index[QoiHash(p)] = [has |-> TRUE, value |-> p]

C9_DiffUnlessCached ==
    [][ \A k \in 1 .. Len(results) :
          (PixelStep(k) /\ Encoded(k) >= 1
             /\ OneMinusOneZero(CurrentPixel(k), PixelBefore(k))) =>
              Emitted(k) = PendingRun(k) \o
                  (IF Cached(k, CurrentPixel(k))
                   THEN << QoiHash(CurrentPixel(k)) >>
                   ELSE << 64 + 16 * (1 + 2) + 4 * (-1 + 2) + (0 + 2) >>) ]_vars

\* C9 as claimed: the opcode is DIFF, in any pixel sequence, at any position.
C9_AlwaysDiff ==
    [][ \A k \in 1 .. Len(results) :
          (PixelStep(k) /\ Encoded(k) >= 1
             /\ OneMinusOneZero(CurrentPixel(k), PixelBefore(k))) =>
              Emitted(k) = PendingRun(k) \o
                  << 64 + 16 * (1 + 2) + 4 * (-1 + 2) + (0 + 2) >> ]_vars

\* an invocation has just emitted DIFF for the second pixel of such a pair
C9_Witness ==
    \E k \in 1 .. Len(results) :
        /\ results[k].pc = "loop"
        /\ Encoded(k) >= 2
        /\ OneMinusOneZero(PixelBefore(k),
                           image.pixels[image.width * results[k].y + results[k].x - 1])
        /\ EndsWith(results[k].res, << 64 + 16 * (1 + 2) + 4 * (-1 + 2) + (0 + 2) >>)
        /\ results[k].run = 0

(***************************************************************************)
(* C10: for every pixel P and previous-pixel register PP exactly one case  *)
(* applies, the first of: P = PP, run accounting only; the index slot      *)
(* hash(P) holds P, INDEX; P.a /= PP.a, RGBA; the differences of r, g, b   *)
(* modulo 256 as signed 8-bit values all lie in [-2,1], DIFF; vg in        *)
(* [-32,31] and vr-vg, vb-vg in [-8,7], LUMA; otherwise RGB.  A pending    *)
(* run is flushed before the opcode of a non-matching pixel.               *)
(***************************************************************************)
\* v modulo 256 as a signed 8-bit value
Signed8(v) == ((v + 128) % 256) - 128

ClaimedCase(p, pp, table) ==
    LET vr == Signed8(p.r - pp.r)
        vg == Signed8(p.g - pp.g)
        vb == Signed8(p.b - pp.b)
    IN  IF p = pp THEN "run"
        ELSE IF table[QoiHash(p)] = [has |-> TRUE, value |-> p] THEN "INDEX"
        ELSE IF p.a /= pp.a THEN "RGBA"
        ELSE IF vr \in -2 .. 1 /\ vg \in -2 .. 1 /\ vb \in -2 .. 1 THEN "DIFF"
        ELSE IF vg \in -32 .. 31 /\ (vr - vg) \in -8 .. 7 /\ (vb - vg) \in -8 .. 7 THEN "LUMA"
        ELSE "RGB"

C10_OpcodePriority ==
    [][ \A k \in 1 .. Len(results) :
          PixelStep(k) =>
              LET kind == ClaimedCase(CurrentPixel(k), results[k].previous_pixel,
                                      results[k].index)
                  em == Emitted(k)
              IN  IF kind = "run"
                  THEN /\ em \in { <<>>, <<253>> }
                       /\ results'[k].index = results[k].index
                       /\ results'[k].previous_pixel = results[k].previous_pixel
                  ELSE /\ StartsWith(em, PendingRun(k))
                       /\ Len(em) > Len(PendingRun(k))
                       /\ OpKind(em[Len(PendingRun(k)) + 1]) = kind
                       /\ Len(em) = Len(PendingRun(k)) + OpLen(em[Len(PendingRun(k)) + 1])
                       /\ results'[k].previous_pixel = CurrentPixel(k) ]_vars

\* an invocation has just emitted LUMA for a cache-missing pixel at (10,5,9)
\* of the pixel before it, and another DIFF for a red channel going 255 -> 0
C10_Witness ==
    \E k \in 1 .. Len(results) :
        /\ results[k].pc = "loop"
        /\ Encoded(k) >= 3
        /\ LET n == image.width * results[k].y + results[k].x
           IN  /\ image.pixels[n - 2].r = 255
               /\ image.pixels[n - 1] = Shifted(image.pixels[n - 2], 1, 0, 0)
               /\ image.pixels[n] = Shifted(image.pixels[n - 1], 10, 5, 9)
        /\ EndsWith(results[k].res,
                    << 64 + 16 * (1 + 2) + 4 * (0 + 2) + (0 + 2),
                       128 + (5 + 32), 16 * (10 - 5 + 8) + (9 - 5 + 8) >>)

(***************************************************************************)
(* C11 as amended: at the start of every encodeQoi invocation (every       *)
(* chunk, first or not) the previous-pixel register is (0,0,0,255), so a   *)
(* chunk whose first pixel is (0,0,0,255) starts a run with it, a first    *)
(* pixel of alpha 255 is never an alpha change, and a first pixel of       *)
(* another alpha is one (RGBA) unless the index holds it (INDEX).          *)
(***************************************************************************)
C11_PreviousStartsOpaqueBlack ==
    [][ \A k \in 1 .. Len(results) :
          (PixelStep(k) /\ Encoded(k) = 0) =>
              /\ results[k].previous_pixel = MkPixel(0, 0, 0, 255)
              /\ results[k].run = 0
              /\ IF CurrentPixel(k) = MkPixel(0, 0, 0, 255)
                 THEN Emitted(k) = <<>> /\ results'[k].run = 1
                 ELSE /\ Emitted(k) /= <<>>
                      /\ IF CurrentPixel(k).a = 255
                         THEN OpKind(Emitted(k)[1]) \in {"INDEX", "DIFF", "LUMA", "RGB"}
                         ELSE OpKind(Emitted(k)[1]) \in {"INDEX", "RGBA"} ]_vars

\* C11 as claimed: the register starts as (0,0,0,0), a first pixel (0,0,0,0)
\* starts a run and a first pixel of alpha 255 is an alpha change.
C11_PreviousStartsTransparent ==
    [][ \A k \in 1 .. Len(results) :
          (PixelStep(k) /\ Encoded(k) = 0) =>
              /\ results[k].previous_pixel = MkPixel(0, 0, 0, 0)
              /\ IF CurrentPixel(k) = MkPixel(0, 0, 0, 0)
                 THEN Emitted(k) = <<>> /\ results'[k].run = 1
                 ELSE CurrentPixel(k).a = 255 =>
                          /\ Emitted(k) /= <<>>
                          /\ OpKind(Emitted(k)[1]) = "RGBA" ]_vars

\* a chunk that is not the first has begun with a run of (0,0,0,255), and
\* the first chunk with an opcode for a pixel of alpha 255
C11_Witness ==
    /\ Len(results) >= 2
    /\ results[2].start_y > 0
    /\ results[2].pc = "loop"
    /\ Encoded(2) = 1
    /\ PixelBefore(2) = MkPixel(0, 0, 0, 255)
    /\ results[2].run = 1
    /\ results[2].res = <<>>
    /\ results[1].pc = "done"
    /\ image.pixels[1] = MkPixel(64, 0, 0, 255)

(***************************************************************************)
(* The opcodes of one invocation's string                                  *)
(***************************************************************************)
\* invocation k has appended the end marker
HasMarker(k) ==
    results[k].pc = "done" /\ ~SizeLess(results[k].end_y + 1, image.height)

\* the opcodes invocation k has emitted: its string without the header of a
\* chunk that starts at row 0 and without the end marker
ChunkOps(k) ==
    SubSeq(results[k].res,
           IF results[k].start_y = 0 THEN 15 ELSE 1,
           Len(results[k].res) - (IF HasMarker(k) THEN 8 ELSE 0))

RECURSIVE PixelTotal(_, _)
\* the number of pixels the opcodes of bytes from position i on stand for:
\* a RUN counts its length, 0xFD 62, every other opcode 1
PixelTotal(bytes, i) ==
    IF i > Len(bytes) THEN 0
    ELSE OpPixels(bytes[i]) + PixelTotal(bytes, i + OpLen(bytes[i]))

\* the smaller of two std::size_t values
MinSize(a, b) == IF SizeLess(a, b) THEN a ELSE b

\* the pixels of the rows of invocation k, in row-major order
ChunkPixels(k) ==
    SubSeq(image.pixels,
           image.width * results[k].start_y + 1,
           image.width * MinSize(results[k].end_y, image.height))

(***************************************************************************)
(* C12: the opcodes one encodeQoi invocation emits stand for exactly       *)
(* width * (min(end_y, height) - start_y) pixels, a RUN counting its       *)
(* length, 0xFD 62 and every other opcode 1, and for these pixels in       *)
(* order.  At every pixel boundary the opcodes emitted and the pending run *)
(* together stand for exactly the pixels met so far, so a pending run is   *)
(* flushed before the next opcode, and when the invocation returns no run  *)
(* is left pending: no pixel is dropped, duplicated or carried over.       *)
(***************************************************************************)
C12_PixelAccounting ==
    \A k \in 1 .. Len(results) :
        /\ results[k].pc = "loop" =>
              PixelTotal(ChunkOps(k), 1) + results[k].run = Encoded(k)
        /\ results[k].pc = "done" =>
              /\ PixelTotal(ChunkOps(k), 1)
                    = image.width * (MinSize(results[k].end_y, image.height)
                                       - results[k].start_y)
              /\ LET st == Decode(DecoderInit, ChunkOps(k), 1)
                 IN  st.ok /\ st.pixels = ChunkPixels(k)

\* an invocation has returned after it flushed a run before an opcode and
\* another at its end
C12_Witness ==
    \E k \in 1 .. Len(results) :
        /\ results[k].pc = "done"
        /\ Len(ChunkOps(k)) >= 3
        /\ OpKind(ChunkOps(k)[1]) = "RUN"
        /\ OpKind(ChunkOps(k)[2]) /= "RUN"
        /\ OpKind(ChunkOps(k)[Len(ChunkOps(k))]) = "RUN"
        /\ PixelTotal(ChunkOps(k), 1) = 3

\* invocation k leaves its pixel loop and returns in this step
ReturnStep(k) == results[k].pc = "loop" /\ results'[k].pc = "done"

(***************************************************************************)
(* C13: at every pixel boundary inside encodeQoi the run counter is in     *)
(* 0 .. 61.  A matching pixel adds 1 to it, and when that makes 62 the     *)
(* single byte 0xFD is emitted and the counter is 0 again; a non-matching  *)
(* pixel resets it to 0.  Every byte emitted for a run, before an opcode   *)
(* or on return, is 0xC0 + (run - 1) for a run of 1 .. 61, so the bytes of *)
(* runs lie in 0xC0 .. 0xFD and are never 0xFE or 0xFF.                    *)
(***************************************************************************)
C13_RunCounter ==
    [][ \A k \in 1 .. Len(results) :
          /\ PixelStep(k) =>
                /\ results[k].run \in 0 .. 61
                /\ results'[k].run \in 0 .. 61
                /\ IF CurrentPixel(k) = results[k].previous_pixel
                   THEN IF results[k].run = 61
                        THEN results'[k].run = 0 /\ Emitted(k) = << 253 >>
                        ELSE results'[k].run = results[k].run + 1 /\ Emitted(k) = <<>>
                   ELSE /\ results'[k].run = 0
                        /\ results[k].run > 0 =>
                              /\ Emitted(k)[1] = 192 + (results[k].run - 1)
                              /\ Emitted(k)[1] \in 192 .. 252
          /\ ReturnStep(k) =>
                /\ results[k].run \in 0 .. 61
                /\ results[k].run > 0 =>
                      /\ Emitted(k)[1] = 192 + (results[k].run - 1)
                      /\ Emitted(k)[1] \in 192 .. 252
                /\ \A i \in OpStarts(ChunkOps(k)', 1) :
                      OpKind(ChunkOps(k)'[i]) = "RUN" =>
                          /\ ChunkOps(k)'[i] \in 192 .. 253
                          /\ OpPixels(ChunkOps(k)'[i]) \in 1 .. 62 ]_vars

\* the counter has just reached 62 for the second time: two bytes 0xFD, and
\* the counter is 0
C13_Witness ==
    \E k \in 1 .. Len(results) :
        /\ results[k].pc = "loop"
        /\ results[k].run = 0
        /\ Encoded(k) >= 124
        /\ EndsWith(ChunkOps(k), << 253, 253 >>)

\* the pixels invocation k has met before the pixel it encodes next
MetBefore(k) ==
    { image.pixels[j] :
        j \in image.width * results[k].start_y + 1
                .. image.width * results[k].y + results[k].x }

\* the first opcode invocation k emits in this step, after the pending run
FirstOp(k) == SubSeq(Emitted(k), Len(PendingRun(k)) + 1, Len(Emitted(k)))

(***************************************************************************)
(* C14: inside one chunk an INDEX opcode of slot s is emitted for pixel P  *)
(* only when s = (3r + 5g + 7b + 11a) mod 64 and slot s holds P; a slot    *)
(* holds the sentinel (0,0,0,0) of a chunk that starts at row 0, or a      *)
(* pixel of its own hash that this chunk has met and stored, or (in a      *)
(* chunk with start_y > 0) nothing; on a cache miss P is stored at its     *)
(* slot, over what was there, whichever of RGBA, DIFF, LUMA, RGB follows,  *)
(* and no other slot changes; run pixels and cache hits leave the table    *)
(* unchanged; a chunk with start_y > 0 emits INDEX only for a pixel it met *)
(* before.                                                                 *)
(***************************************************************************)
C14_IndexDiscipline ==
    [][ \A k \in 1 .. Len(results) :
          PixelStep(k) =>
              LET P == CurrentPixel(k)
                  s == (3 * P.r + 5 * P.g + 7 * P.b + 11 * P.a) % 64
                  table == results[k].index
              IN  /\ \A i \in 0 .. 63 :
                        IF table[i].has
                        THEN \/ results[k].start_y = 0 /\ table[i].value = MkPixel(0, 0, 0, 0)
                             \/ /\ table[i].value \in MetBefore(k)
                                /\ QoiHash(table[i].value) = i
                        ELSE results[k].start_y /= 0
                  /\ IF P = results[k].previous_pixel
                     THEN results'[k].index = table
                     ELSE IF table[s] = [has |-> TRUE, value |-> P]
                     THEN /\ results'[k].index = table
                          /\ FirstOp(k) = << s >>
                          /\ results[k].start_y /= 0 => P \in MetBefore(k)
                     ELSE /\ results'[k].index
                                = [table EXCEPT ![s] = [has |-> TRUE, value |-> P]]
                          /\ OpKind(FirstOp(k)[1]) \in {"RGBA", "DIFF", "LUMA", "RGB"} ]_vars

\* a chunk with start_y > 0 has emitted INDEX for a pixel it stored before,
\* while the first chunk holds a stored pixel beside its sentinels
C14_Witness ==
    /\ Len(results) >= 2
    /\ results[2].start_y > 0
    /\ results[2].pc = "loop"
    /\ Encoded(2) = 3
    /\ ChunkOps(2) /= <<>>
    /\ OpKind(ChunkOps(2)[Len(ChunkOps(2))]) = "INDEX"
    /\ results[2].index[ChunkOps(2)[Len(ChunkOps(2))]]
           = [has |-> TRUE, value |-> PixelBefore(2)]
    /\ \E i \in 0 .. 63 : results[1].index[i].value /= MkPixel(0, 0, 0, 0)

(***************************************************************************)
(* C15: when T >= 2 and the task of a chunk fails, main fails when it      *)
(* joins that chunk: the bytes written are then exactly the whole strings  *)
(* of the chunks before it, in order, no byte of the failed chunk or of a  *)
(* later one is written, and main returns 1; it returns 0 only when every  *)
(* chunk has returned and been written.                                    *)
(***************************************************************************)
C15_PartialFailure ==
    threads >= 2 =>
        /\ pc = "join" =>
              /\ \A j \in 1 .. next - 1 : results[j].pc = "done"
              /\ out = ConcatRes(results, next - 1)
        /\ (pc = "failed" /\ results /= <<>>) =>
              /\ next <= Len(results)
              /\ results[next].pc = "failed"
              /\ \A j \in 1 .. next - 1 : results[j].pc = "done"
              /\ out = ConcatRes(results, next - 1)
        /\ pc = "done" =>
              /\ \A j \in 1 .. Len(results) : results[j].pc = "done"
              /\ out = ConcatRes(results, Len(results))

\* main has failed at the second chunk after it wrote the first, the failed
\* chunk had encoded something and a later chunk has returned
C15_Witness ==
    /\ threads >= 2
    /\ pc = "failed"
    /\ next = 2
    /\ Len(results) >= 3
    /\ out /= <<>>
    /\ results[2].pc = "failed"
    /\ results[2].res /= <<>>
    /\ results[3].pc = "done"
    /\ results[3].res /= <<>>

(***************************************************************************)
(* C16: if reading the input raises an error, or the image read has zero   *)
(* width or zero height, then no encodeQoi invocation is started, no task  *)
(* is submitted, no byte is written to std::cout, and main can only end in *)
(* the failure state, with one diagnostic line on std::cerr.               *)
(***************************************************************************)
C16_ReadErrorsAbort ==
    (input.kind = "error" \/ input.image.width = 0 \/ input.image.height = 0) =>
        /\ results = <<>>
        /\ out = <<>>
        /\ lines_per_pack = 0
        /\ \/ pc = "read" /\ err = <<>>
           \/ pc = "failed" /\ err = << "An error occurred" >>

\* main has failed on an image of width 0 with several workers asked for
C16_Witness ==
    /\ pc = "failed"
    /\ input.kind = "image"
    /\ image = MkImage(0, 1, <<>>)
    /\ threads >= 2
    /\ err = << "An error occurred" >>

(***************************************************************************)
(* C17: for every H >= 1 and T >= 2 main submits at most T encoding tasks; *)
(* for T < 2 it submits none and makes exactly one synchronous call,       *)
(* encodeQoi(image, 0, H).                                                 *)
(***************************************************************************)
C17_TaskBound ==
    /\ threads >= 2 =>
          /\ Len(results) <= threads
          /\ \A k \in 1 .. Len(results) : results[k].async
    /\ threads < 2 =>
          /\ Len(results) <= 1
          /\ \A k \in 1 .. Len(results) :
                /\ ~results[k].async
                /\ results[k].start_y = 0
                /\ results[k].end_y = image.height
          /\ pc \in {"serial", "done"} <=> Len(results) = 1

\* main has submitted as many tasks as workers were asked for, for an image
\* of more rows than workers
C17_Witness ==
    /\ threads = MaxThreads
    /\ image.height > threads
    /\ pc = "join"
    /\ Len(results) = threads

\* no invocation has thrown
NoTaskFailed == \A k \in 1 .. Len(results) : results[k].pc /= "failed"

\* main has returned 0 after every invocation returned and every string was
\* written, in order
Success ==
    /\ pc = "done"
    /\ results /= <<>>
    /\ \A k \in 1 .. Len(results) : results[k].pc = "done"
    /\ out = ConcatRes(results, Len(results))

(***************************************************************************)
(* C18: for every non-empty image and every worker count, under fair       *)
(* scheduling of main and of the tasks and with no task failure, main      *)
(* eventually reaches the state in which every submitted task has          *)
(* returned, all chunk strings have been written in order and main has     *)
(* returned 0: the planning loop ends and no join blocks for ever.         *)
(* "If no task ever fails, eventually Success" is stated in its equivalent *)
(* form "eventually Success, or a task has failed".                        *)
(***************************************************************************)
C18_Termination ==
    (input.kind = "image" /\ ImageValid(input.image)) => <>(Success \/ ~NoTaskFailed)

\* main has returned 0 after it joined MaxThreads tasks
C18_Witness ==
    /\ Success
    /\ threads = MaxThreads
    /\ Len(results) = threads

(***************************************************************************)
(* C19: for every non-empty image the output of the serial path,           *)
(* encodeQoi(image, 0, height), decodes with the standard sequential       *)
(* decoder (previous pixel (0,0,0,255), 64 slots of (0,0,0,0), the table   *)
(* updated after every decoded pixel) to exactly the image's pixels in     *)
(* row-major order.  Encoder and decoder stay in step: at every pixel      *)
(* boundary the opcodes emitted so far decode to the pixels met so far     *)
(* less the pending run, which repeats the pixel the decoder holds as its  *)
(* previous pixel, the encoder's own previous pixel.                       *)
(***************************************************************************)
C19_SerialRoundTrip ==
    threads < 2 =>
        /\ \A k \in 1 .. Len(results) :
              results[k].pc = "loop" =>
                  LET st == Decode(DecoderInit, ChunkOps(k), 1)
                  IN  /\ st.ok
                      /\ st.px = results[k].previous_pixel
                      /\ st.pixels \o [i \in 1 .. results[k].run |-> st.px]
                            = SubSeq(image.pixels, 1, Encoded(k))
        /\ pc = "done" => ValidStream(out, image)

\* the serial path has written a stream in which an INDEX opcode names a
\* pixel the encoder stored, not a sentinel
C19_Witness ==
    /\ threads < 2
    /\ pc = "done"
    /\ \E i \in OpStarts(Body(out), 1) :
          /\ OpKind(Body(out)[i]) = "INDEX"
          /\ Body(out)[i] /= 0

(***************************************************************************)
(* C20: every opcode byte encodeQoi emits lies in its tag's range and the  *)
(* payload never spills into the tag bits.  The hash is in 0 .. 63 and an  *)
(* INDEX byte is the hash, in 0x00 .. 0x3F; a DIFF byte is in 0x40 .. 0x7F *)
(* and its three 2-bit fields are the deltas of r, g, b plus 2, in 0 .. 3; *)
(* a LUMA first byte is in 0x80 .. 0xBF with low six bits vg + 32 in       *)
(* 0 .. 63, and the nibbles of its second byte are (vr - vg) + 8 and       *)
(* (vb - vg) + 8, in 0 .. 15.                                              *)
(***************************************************************************)
C20_OpcodeBytesWellFormed ==
    [][ \A k \in 1 .. Len(results) :
          PixelStep(k) =>
              LET P == CurrentPixel(k)
                  PP == results[k].previous_pixel
                  kind == ClaimedCase(P, PP, results[k].index)
                  op == FirstOp(k)
                  vr == Signed8(P.r - PP.r)
                  vg == Signed8(P.g - PP.g)
                  vb == Signed8(P.b - PP.b)
              IN  /\ QoiHash(P) \in 0 .. 63
                  /\ \A i \in 1 .. Len(Emitted(k)) : Emitted(k)[i] \in 0 .. 255
                  /\ kind = "INDEX" =>
                        /\ Len(op) = 1
                        /\ op[1] \in 0 .. 63
                        /\ op[1] = QoiHash(P)
                  /\ kind = "DIFF" =>
                        /\ Len(op) = 1
                        /\ op[1] \in 64 .. 127
                        /\ (op[1] \div 16) % 4 = vr + 2
                        /\ (op[1] \div 4) % 4 = vg + 2
                        /\ op[1] % 4 = vb + 2
                        /\ {vr + 2, vg + 2, vb + 2} \subseteq 0 .. 3
                  /\ kind = "LUMA" =>
                        /\ Len(op) = 2
                        /\ op[1] \in 128 .. 191
                        /\ op[1] % 64 = vg + 32
                        /\ vg + 32 \in 0 .. 63
                        /\ op[2] \div 16 = (vr - vg) + 8
                        /\ op[2] % 16 = (vb - vg) + 8
                        /\ {(vr - vg) + 8, (vb - vg) + 8} \subseteq 0 .. 15 ]_vars

\* an invocation has just emitted the LUMA opcode of the lowest deltas,
\* vg = -32 and vr - vg = vb - vg = -8: the bytes 0x80 and 0x00
C20_Witness ==
    \E k \in 1 .. Len(results) :
        /\ results[k].pc = "loop"
        /\ Encoded(k) = 2
        /\ image.pixels[1] = MkPixel(0, 0, 0, 255)
        /\ image.pixels[2] = MkPixel(216, 224, 216, 255)
        /\ EndsWith(results[k].res, << 192, 128, 0 >>)

=============================================================================
